---- MODULE Spec2Model ----
(***************************************************************************)
(* Model of cli/internal/scripts/update-project-v3.go: the pipeline that   *)
(* moves a project from config V2 to config V3 (UpdateProjectV3), the      *)
(* state transplant (CopyState) and the directory reorganisation helpers.  *)
(***************************************************************************)
EXTENDS Integers, Sequences, FiniteSets, TLC

(***************************************************************************)
(* Config versions (cli.V1, cli.V2, cli.V3).                               *)
(***************************************************************************)
V1 == 1
V2 == 2
V3 == 3
Versions == {V1, V2, V3}

(***************************************************************************)
(* A file name is given by what the name filter reads of it: the number of *)
(* decimal digits it starts with, the character after them ("" when the    *)
(* name ends there) and the rest of the name.                              *)
(***************************************************************************)
TimestampLen == 13

Name(digits, next, tail) == [digits |-> digits, next |-> next, tail |-> tail]
\* 1610000000000_init/ and 1610000000001_add.sql: a directory and a file
MigInitDir == Name(TimestampLen, "_", "init")
MigAddFile == Name(TimestampLen, "_", "add.sql")
\* 161000000000_old/ has twelve digits only
ShortStampDir == Name(TimestampLen - 1, "_", "old")
SeedFile == Name(0, "s", "eed1.sql")
SeedSubDir == Name(0, "s", "hared")
FunctionsYaml == Name(0, "f", "unctions.yaml")
TablesYaml == Name(0, "t", "ables.yaml")
ExportedYaml == Name(0, "v", "ersion.yaml")
DefaultDB == Name(0, "d", "efault")
OtherDB == Name(0, "d", "b2")
NoName == Name(0, "", "")

DatabaseNames == {DefaultDB, OtherDB}
MatchedCandidates == {MigInitDir, MigAddFile}
\* names whose entry is a directory; every other name is a regular file
DirNames == {MigInitDir, ShortStampDir, SeedSubDir} \cup DatabaseNames

\* every name in the order afero.ReadDir returns them (sorted by name)
SortedNames == <<MigInitDir, MigAddFile, ShortStampDir, OtherDB, DefaultDB,
                 FunctionsYaml, SeedFile, SeedSubDir, TablesYaml, ExportedYaml>>
Names == {SortedNames[k] : k \in 1..Len(SortedNames)}

(***************************************************************************)
(* The filesystem maps the paths that exist to what they hold.  A path is  *)
(* <<root, sub, name>>: root is the migrations, seeds or metadata          *)
(* directory, sub is NoName for an immediate child of the root and else    *)
(* the database directory the entry is in.                                 *)
(***************************************************************************)
MigrationsDir == "migrations"
SeedsDir == "seeds"
MetadataDir == "metadata"
Roots == {MigrationsDir, SeedsDir, MetadataDir}
DirMark == "dir"
\* what an entry holds is identified by the name it was created with
ContentOf(name) == name.tail

\* a directory is <<root, sub>>; filepath.Join(dir, name) is the entry name in it
RootOf(root) == <<root, NoName>>
Join(dir, name) == <<dir[1], dir[2], name>>
\* filepath.Join(root, database) as a directory to put entries in
DatabaseDirOf(root, database) == <<root, database>>
Exists(f, p) == p \in DOMAIN f
Put(f, p, content) == [q \in DOMAIN f \cup {p} |-> IF q = p THEN content ELSE f[q]]
\* the path and, when it is a directory below a root, the entries in it
Under(p) == {q \in {p[1]} \X {p[3]} \X Names : p[2] = NoName} \cup {p}

VARIABLES
    fs,            \* opts.Fs: the paths that exist -> what they hold
    diskVersion,   \* version field of the config file on disk
    ecVersion,     \* opts.EC.Config.Version
    HasMetadataV3, \* opts.EC.HasMetadataV3
    sources,       \* what metadatautil.GetSources reports
    hdbTable,      \* rows of hdb_catalog.schema_migrations (table-backed store)
    catalog,       \* the backend's CatalogState
    pc,            \* position in UpdateProjectV3
    opts,          \* Force, MoveStateOnly, TargetDatabase
    targetDatabase,
    migrationDirectoriesToMove,
    seedFilesToMove,
    idx,           \* position of the loop in copy / remove
    cliState,      \* CopyState: the state fetched by Get
    result,        \* "none" while running, "nil" or "err" once returned
    runs,          \* number of UpdateProjectV3 invocations started
    hist,          \* what this run has done so far (observation only)
    otherWrites,   \* writes of the CatalogState by another client so far
    required       \* what the last CheckIfUpdateToConfigV3IsRequired returned

vars == <<fs, diskVersion, ecVersion, HasMetadataV3, sources, hdbTable, catalog,
          pc, opts, targetDatabase, migrationDirectoriesToMove, seedFilesToMove,
          idx, cliState, result, runs, hist, otherWrites, required>>

backend == <<HasMetadataV3, sources, hdbTable>>
locals == <<targetDatabase, migrationDirectoriesToMove, seedFilesToMove, idx, cliState>>
\* what no step of UpdateProjectV3 touches
outside == <<otherWrites, required>>

MaxRuns == 2

(***************************************************************************)
(* Initial state: a project directory with some of the timestamp-named     *)
(* migrations, a seed file, the legacy metadata files, and a backend with  *)
(* some connected sources and an empty CatalogState.                       *)
(***************************************************************************)
InitialPaths(migs, legacy) ==
    ({MigrationsDir} \X {NoName} \X (migs \cup {ShortStampDir}))
        \cup ({SeedsDir} \X {NoName} \X {SeedFile, SeedSubDir})
        \cup ({MetadataDir} \X {NoName} \X legacy)
InitialFs(migs, legacy) ==
    [p \in InitialPaths(migs, legacy) |-> ContentOf(p[3])]

SourceLists == {<<>>, <<DefaultDB>>, <<OtherDB>>, <<DefaultDB, OtherDB>>}
TableRows == {[version |-> 1, dirty |-> FALSE]}
TableSettings == {[key |-> "migration_mode", value |-> "true"]}
EmptyCatalog == [migrations |-> {}, settings |-> {}, IsStateCopyCompleted |-> FALSE]

NoOpts == [Force |-> FALSE, MoveStateOnly |-> FALSE, TargetDatabase |-> NoName]
\* the record of a run that has done nothing yet, started in the given state
FreshHist(f, version, state) ==
    [selectPrompts |-> 0, confirmPrompts |-> 0, failedStep |-> "none",
     copied |-> {}, deleted |-> {}, skipped |-> {}, copyFailed |-> FALSE,
     stateWrites |-> 0, configWrites |-> 0, latchAtCopyState |-> FALSE,
     copyStateCalls |-> 0, consistency |-> "none",
     response |-> "none", sourceListings |-> 0,
     startFs |-> f, startVersion |-> version, startCatalog |-> state]

Init ==
    /\ \E migs \in {{}, MatchedCandidates} :
          fs = InitialFs(migs, {FunctionsYaml, TablesYaml})
    /\ diskVersion \in Versions
    /\ ecVersion = diskVersion
    /\ HasMetadataV3 \in BOOLEAN
    /\ sources \in SourceLists
    /\ hdbTable = TableRows
    /\ catalog = EmptyCatalog
    /\ pc = "idle"
    /\ opts = NoOpts
    /\ targetDatabase = NoName
    /\ migrationDirectoriesToMove = <<>>
    /\ seedFilesToMove = <<>>
    /\ idx = 0
    /\ cliState = EmptyCatalog
    /\ result = "none"
    /\ runs = 0
    /\ hist = FreshHist(fs, diskVersion, catalog)
    /\ otherWrites = 0
    /\ required = "none"

(***************************************************************************)
(* Returning from UpdateProjectV3.                                         *)
(***************************************************************************)
ReturnErr(step) ==
    /\ pc' = "done"
    /\ result' = "err"
    /\ hist' = [hist EXCEPT !.failedStep = step]

ReturnNil ==
    /\ pc' = "done"
    /\ result' = "nil"

(***************************************************************************)
(* A command invocation: the config file is loaded into EC.Config and      *)
(* UpdateProjectV3 is called with the options of the command line.         *)
(***************************************************************************)
Invoke ==
    /\ pc \in {"idle", "done"}
    /\ runs < MaxRuns
    /\ runs' = runs + 1
    /\ \E force \in BOOLEAN, moveStateOnly \in BOOLEAN,
          target \in {NoName, OtherDB} :
          opts' = [Force |-> force, MoveStateOnly |-> moveStateOnly,
                   TargetDatabase |-> target]
    /\ ecVersion' = diskVersion
    /\ pc' = "prechecks"
    /\ result' = "none"
    /\ targetDatabase' = NoName
    /\ migrationDirectoriesToMove' = <<>>
    /\ seedFilesToMove' = <<>>
    /\ idx' = 0
    /\ cliState' = EmptyCatalog
    /\ hist' = FreshHist(fs, diskVersion, catalog)
    /\ required' = "none"
    /\ UNCHANGED <<fs, diskVersion, catalog, backend, otherWrites>>

(***************************************************************************)
(* UpdateProjectV3, lines 54-67: the pre checks.                           *)
(***************************************************************************)
WrongVersion(version, moveStateOnly) == version # V2 /\ ~moveStateOnly

\* the pre checks without the test of HasMetadataV3
PreChecksPass_NoCapability(version, moveStateOnly, hasMetadataV3, answer) ==
    /\ ~WrongVersion(version, moveStateOnly)
    /\ answer = "consistent"

\* the outcome of the pre checks for an answer of GetInconsistentMetadata
PreChecksPass(version, moveStateOnly, hasMetadataV3, answer) ==
    /\ ~WrongVersion(version, moveStateOnly)
    /\ hasMetadataV3
    /\ answer = "consistent"

PreChecks ==
    /\ pc = "prechecks"
    /\ \E answer \in {"consistent", "inconsistent", "error"} :
          IF PreChecksPass(ecVersion, opts.MoveStateOnly, HasMetadataV3, answer)
          THEN /\ pc' = "confirm"
               /\ hist' = [hist EXCEPT !.consistency = answer]
               /\ UNCHANGED result
          ELSE /\ pc' = "done"
               /\ result' = "err"
               /\ hist' = [hist EXCEPT !.consistency = answer, !.failedStep = "prechecks"]
    /\ UNCHANGED <<fs, diskVersion, ecVersion, catalog, backend, outside, opts, locals, runs>>

(***************************************************************************)
(* Lines 74-82: the confirmation prompt, skipped with --force.             *)
(***************************************************************************)
\* the prompt with the answer "n" going on like "y"
Confirm_DeclineIgnored ==
    /\ pc = "confirm"
    /\ IF opts.Force
       THEN /\ pc' = "sources"
            /\ UNCHANGED <<result, hist>>
       ELSE \E response \in {"y", "n", "error"} :
             /\ hist' = [hist EXCEPT !.confirmPrompts = @ + 1,
                            !.response = response,
                            !.failedStep = IF response = "error" THEN "confirm" ELSE @]
             /\ IF response = "error" THEN pc' = "done" /\ result' = "err"
                ELSE pc' = "sources" /\ UNCHANGED result
    /\ UNCHANGED <<fs, diskVersion, ecVersion, catalog, backend, outside, opts, locals, runs>>

Confirm ==
    /\ pc = "confirm"
    /\ IF opts.Force
       THEN /\ pc' = "sources"
            /\ UNCHANGED <<result, hist>>
       ELSE \E response \in {"y", "n", "error"} :
             /\ hist' = [hist EXCEPT !.confirmPrompts = @ + 1,
                            !.response = response,
                            !.failedStep = IF response = "error" THEN "confirm" ELSE @]
             /\ IF response = "error" THEN pc' = "done" /\ result' = "err"
                ELSE IF response = "n" THEN ReturnNil
                ELSE pc' = "sources" /\ UNCHANGED result
    /\ UNCHANGED <<fs, diskVersion, ecVersion, catalog, backend, outside, opts, locals, runs>>

(***************************************************************************)
(* Lines 84-103: the target database.                                      *)
(***************************************************************************)
\* the branches with len(sources) >= 1 in place of len(sources) == 1 on line 93
TargetChoice_AnyFirst(flag, srcs) ==
    IF flag = NoName
    THEN IF Len(srcs) >= 1 /\ srcs[1] = DefaultDB THEN "auto"
         ELSE IF Len(srcs) > 0 THEN "prompt"
         ELSE "nosources"
    ELSE "flag"

\* which branch of lines 92-103 is taken for the --database-name flag and the sources
TargetChoice(flag, srcs) ==
    IF flag = NoName
    THEN IF Len(srcs) = 1 /\ srcs[1] = DefaultDB THEN "auto"
         ELSE IF Len(srcs) > 0 THEN "prompt"
         ELSE "nosources"
    ELSE "flag"

\* line 108: the state is copied when there is at least one source
CopiesState(srcs) == Len(srcs) >= 1
AfterTarget(srcs) == IF CopiesState(srcs) THEN "CopyState" ELSE "getMigrationDirectoryNames"

GetSources ==
    /\ pc = "sources"
    /\ \/ /\ pc' = "done"
          /\ result' = "err"
          /\ hist' = [hist EXCEPT !.sourceListings = @ + 1, !.failedStep = "GetSources"]
          /\ UNCHANGED targetDatabase
       \/ LET choice == TargetChoice(opts.TargetDatabase, sources) IN
          CASE choice = "flag" ->
                 /\ targetDatabase' = opts.TargetDatabase
                 /\ pc' = AfterTarget(sources)
                 /\ hist' = [hist EXCEPT !.sourceListings = @ + 1]
                 /\ UNCHANGED result
            [] choice = "auto" ->
                 /\ targetDatabase' = sources[1]
                 /\ pc' = AfterTarget(sources)
                 /\ hist' = [hist EXCEPT !.sourceListings = @ + 1]
                 /\ UNCHANGED result
            [] choice = "prompt" ->
                 /\ pc' = "GetSelectPrompt"
                 /\ hist' = [hist EXCEPT !.sourceListings = @ + 1]
                 /\ UNCHANGED <<targetDatabase, result>>
            [] OTHER ->
                 /\ pc' = "done"
                 /\ result' = "err"
                 /\ hist' = [hist EXCEPT !.sourceListings = @ + 1, !.failedStep = "nosources"]
                 /\ UNCHANGED targetDatabase
    /\ UNCHANGED <<fs, diskVersion, ecVersion, catalog, backend, outside, opts, runs,
                   migrationDirectoriesToMove, seedFilesToMove, idx, cliState>>

GetSelectPrompt ==
    /\ pc = "GetSelectPrompt"
    /\ \/ /\ pc' = "done"
          /\ result' = "err"
          /\ hist' = [hist EXCEPT !.selectPrompts = @ + 1, !.failedStep = "GetSelectPrompt"]
          /\ UNCHANGED targetDatabase
       \/ \E k \in 1..Len(sources) :
          /\ targetDatabase' = sources[k]
          /\ hist' = [hist EXCEPT !.selectPrompts = @ + 1]
          /\ pc' = AfterTarget(sources)
          /\ UNCHANGED result
    /\ UNCHANGED <<fs, diskVersion, ecVersion, catalog, backend, outside, opts, runs,
                   migrationDirectoriesToMove, seedFilesToMove, idx, cliState>>

(***************************************************************************)
(* CopyState, lines 288-324.                                               *)
(***************************************************************************)
\* statestore.CopyMigrationState: the rows of the table under the new name
RenamedRows(rows, destDatabase) ==
    {[database |-> destDatabase, version |-> r.version, dirty |-> r.dirty] : r \in rows}
HoldsRecordsOf(state, destDatabase) ==
    \E r \in state.migrations : r.database = destDatabase
CopyMigrationState(state, rows, destDatabase) ==
    [state EXCEPT !.migrations = @ \cup RenamedRows(rows, destDatabase)]
\* statestore.CopySettingsState
CopySettingsState(state, settings) ==
    [state EXCEPT !.settings = @ \cup settings]
\* the latch set in a new, empty state in place of the one Get returned
SetLatch_FreshState(state) == [EmptyCatalog EXCEPT !.IsStateCopyCompleted = TRUE]
\* line 319
SetLatch(state) == [state EXCEPT !.IsStateCopyCompleted = TRUE]
\* lines 114-118: what follows a CopyState that returned nil
AfterCopyState(moveStateOnly) ==
    IF moveStateOnly THEN "done" ELSE "getMigrationDirectoryNames"

\* lines 290-297: both migration state stores are prepared
CopyStatePrepareMigrations ==
    /\ pc = "CopyState"
    /\ \/ /\ pc' = "done"
          /\ result' = "err"
          /\ hist' = [hist EXCEPT !.copyStateCalls = @ + 1,
                         !.latchAtCopyState = catalog.IsStateCopyCompleted,
                         !.failedStep = "PrepareMigrationsStateStore"]
       \/ /\ pc' = "CopyMigrationState"
          /\ hist' = [hist EXCEPT !.copyStateCalls = @ + 1,
                         !.latchAtCopyState = catalog.IsStateCopyCompleted]
          /\ UNCHANGED result
    /\ UNCHANGED <<fs, diskVersion, ecVersion, catalog, backend, outside, opts, locals, runs>>

\* lines 298-301 with the error of CopyMigrationState not returned
CopyStateMigrations_ErrorDropped ==
    /\ pc = "CopyMigrationState"
    /\ \/ /\ hist' = [hist EXCEPT !.failedStep = "CopyMigrationState"]
          /\ UNCHANGED catalog
       \/ /\ HoldsRecordsOf(catalog, targetDatabase)
          /\ hist' = [hist EXCEPT !.failedStep = "DuplicateStateConflict"]
          /\ UNCHANGED catalog
       \/ /\ ~HoldsRecordsOf(catalog, targetDatabase)
          /\ catalog' = CopyMigrationState(catalog, hdbTable, targetDatabase)
          /\ hist' = [hist EXCEPT !.stateWrites = @ + 1]
    /\ pc' = "PrepareSettingsDriver"
    /\ UNCHANGED <<result, fs, diskVersion, ecVersion, backend, outside, opts, locals, runs>>

\* lines 298-301
CopyStateMigrations ==
    /\ pc = "CopyMigrationState"
    /\ \/ /\ ReturnErr("CopyMigrationState")
          /\ UNCHANGED catalog
       \/ /\ HoldsRecordsOf(catalog, targetDatabase)
          /\ ReturnErr("DuplicateStateConflict")
          /\ UNCHANGED catalog
       \/ /\ ~HoldsRecordsOf(catalog, targetDatabase)
          /\ catalog' = CopyMigrationState(catalog, hdbTable, targetDatabase)
          /\ hist' = [hist EXCEPT !.stateWrites = @ + 1]
          /\ pc' = "PrepareSettingsDriver"
          /\ UNCHANGED result
    /\ UNCHANGED <<fs, diskVersion, ecVersion, backend, outside, opts, locals, runs>>

\* lines 303-310: both settings stores are prepared
CopyStatePrepareSettings ==
    /\ pc = "PrepareSettingsDriver"
    /\ \/ ReturnErr("PrepareSettingsDriver")
       \/ /\ pc' = "CopySettingsState"
          /\ UNCHANGED <<result, hist>>
    /\ UNCHANGED <<fs, diskVersion, ecVersion, catalog, backend, outside, opts, locals, runs>>

\* lines 311-314 with the error of CopySettingsState not returned
CopyStateSettings_ErrorDropped ==
    /\ pc = "CopySettingsState"
    /\ \/ /\ hist' = [hist EXCEPT !.failedStep = "CopySettingsState"]
          /\ UNCHANGED catalog
       \/ /\ catalog' = CopySettingsState(catalog, TableSettings)
          /\ hist' = [hist EXCEPT !.stateWrites = @ + 1]
    /\ pc' = "Get"
    /\ UNCHANGED <<result, fs, diskVersion, ecVersion, backend, outside, opts, locals, runs>>

\* lines 311-314
CopyStateSettings ==
    /\ pc = "CopySettingsState"
    /\ \/ /\ ReturnErr("CopySettingsState")
          /\ UNCHANGED catalog
       \/ /\ catalog' = CopySettingsState(catalog, TableSettings)
          /\ hist' = [hist EXCEPT !.stateWrites = @ + 1]
          /\ pc' = "Get"
          /\ UNCHANGED result
    /\ UNCHANGED <<fs, diskVersion, ecVersion, backend, outside, opts, locals, runs>>

\* lines 315-318
CopyStateGet ==
    /\ pc = "Get"
    /\ \/ /\ ReturnErr("Get")
          /\ UNCHANGED cliState
       \/ /\ cliState' = catalog
          /\ pc' = "Set"
          /\ UNCHANGED <<result, hist>>
    /\ UNCHANGED <<fs, diskVersion, ecVersion, catalog, backend, outside, opts, runs,
                   targetDatabase, migrationDirectoriesToMove, seedFilesToMove, idx>>

\* Set writing the latch into the state as it is now, not into the one of Get
CopyStateSet_Fresh ==
    /\ pc = "Set"
    /\ \/ /\ ReturnErr("Set")
          /\ UNCHANGED catalog
       \/ /\ catalog' = SetLatch(catalog)
          /\ hist' = [hist EXCEPT !.stateWrites = @ + 1]
          /\ pc' = AfterCopyState(opts.MoveStateOnly)
          /\ result' = IF pc' = "done" THEN "nil" ELSE result
    /\ UNCHANGED <<fs, diskVersion, ecVersion, backend, outside, opts, locals, runs>>

\* lines 319-323 and the return to UpdateProjectV3, lines 111-118
CopyStateSet ==
    /\ pc = "Set"
    /\ \/ /\ ReturnErr("Set")
          /\ UNCHANGED catalog
       \/ /\ catalog' = SetLatch(cliState)
          /\ hist' = [hist EXCEPT !.stateWrites = @ + 1]
          /\ pc' = AfterCopyState(opts.MoveStateOnly)
          /\ result' = IF pc' = "done" THEN "nil" ELSE result
    /\ UNCHANGED <<fs, diskVersion, ecVersion, backend, outside, opts, locals, runs>>

(***************************************************************************)
(* The directory listings, lines 125-134 and 243-286.                      *)
(***************************************************************************)
\* regexp ^([0-9]{13})_(.*)$: thirteen digits, then an underscore, then anything
isHasuraCLIGeneratedMigration(name) ==
    /\ name.digits = TimestampLen
    /\ name.next = "_"

\* afero.ReadDir: the names of the entries of a directory, sorted
ReadDir(f, dir) == SelectSeq(SortedNames, LAMBDA n : Exists(f, Join(dir, n)))
IsDir(name) == name \in DirNames

\* getMatchingFilesAndDirs without the test of the matcher
getMatchingFilesAndDirs_Unfiltered(f, parentDir) == ReadDir(f, parentDir)

getMatchingFilesAndDirs(f, parentDir) ==
    SelectSeq(ReadDir(f, parentDir), isHasuraCLIGeneratedMigration)
getSeedFilesOf(f, rootSeedDir) ==
    SelectSeq(ReadDir(f, rootSeedDir), LAMBDA n : ~IsDir(n))

getMigrationDirectoryNames ==
    /\ pc = "getMigrationDirectoryNames"
    /\ \/ /\ ReturnErr("getMigrationDirectoryNames")
          /\ UNCHANGED migrationDirectoriesToMove
       \/ /\ migrationDirectoriesToMove' = getMatchingFilesAndDirs(fs, RootOf(MigrationsDir))
          /\ pc' = "getSeedFiles"
          /\ UNCHANGED <<result, hist>>
    /\ UNCHANGED <<fs, diskVersion, ecVersion, catalog, backend, outside, opts, runs,
                   targetDatabase, seedFilesToMove, idx, cliState>>

getSeedFiles ==
    /\ pc = "getSeedFiles"
    /\ \/ /\ ReturnErr("getSeedFiles")
          /\ UNCHANGED seedFilesToMove
       \/ /\ seedFilesToMove' = getSeedFilesOf(fs, RootOf(SeedsDir))
          /\ pc' = "MkdirMigrations"
          /\ UNCHANGED <<result, hist>>
    /\ UNCHANGED <<fs, diskVersion, ecVersion, catalog, backend, outside, opts, runs,
                   targetDatabase, migrationDirectoriesToMove, idx, cliState>>

(***************************************************************************)
(* Lines 136-146: the directories of the target database.  The error of    *)
(* Mkdir is wrapped and the wrapped error dropped: the function goes on.   *)
(***************************************************************************)
Mkdir(f, root, name) == Put(f, <<root, NoName, name>>, DirMark)

MkdirTarget(at, root, next) ==
    /\ pc = at
    /\ \/ /\ ~Exists(fs, <<root, NoName, targetDatabase>>)
          /\ fs' = Mkdir(fs, root, targetDatabase)
          /\ UNCHANGED hist
       \/ /\ hist' = [hist EXCEPT !.failedStep = at]
          /\ UNCHANGED fs
    /\ pc' = next
    /\ idx' = 1
    /\ UNCHANGED <<diskVersion, ecVersion, catalog, backend, outside, opts, runs, result,
                   targetDatabase, migrationDirectoriesToMove, seedFilesToMove, cliState>>

MkdirMigrations == MkdirTarget("MkdirMigrations", MigrationsDir, "MkdirSeeds")
MkdirSeeds == MkdirTarget("MkdirSeeds", SeedsDir, "copyMigrations")

(***************************************************************************)
(* copyMigrations and copyFiles, lines 212-241.                            *)
(***************************************************************************)
\* util.CopyDirAfero / util.CopyFileAfero when they succeed: the destination holds
\* what the source holds, inside the target directory
CopyAfero(f, src, dst) ==
    Put(Put(f, <<dst[1], NoName, dst[2]>>, DirMark), dst, f[src])

copyMigrations ==
    /\ pc = "copyMigrations"
    /\ IF idx > Len(migrationDirectoriesToMove)
       THEN /\ pc' = "copyFiles"
            /\ idx' = 1
            /\ UNCHANGED <<fs, result, hist>>
       ELSE LET dir == migrationDirectoriesToMove[idx]
                src == Join(RootOf(MigrationsDir), dir)
                dst == Join(DatabaseDirOf(MigrationsDir, targetDatabase), dir)
            IN  \/ \* Stat returns no FileInfo: the entry is passed over
                   /\ hist' = [hist EXCEPT !.skipped = @ \cup {src}]
                   /\ idx' = idx + 1
                   /\ UNCHANGED <<fs, pc, result>>
                \/ \* CopyDirAfero (a directory) or CopyFileAfero (a file) succeeds
                   /\ Exists(fs, src)
                   /\ fs' = CopyAfero(fs, src, dst)
                   /\ hist' = [hist EXCEPT !.copied = @ \cup {src}]
                   /\ idx' = idx + 1
                   /\ UNCHANGED <<pc, result>>
                \/ \* the copy fails
                   /\ Exists(fs, src)
                   /\ pc' = "done"
                   /\ result' = "err"
                   /\ hist' = [hist EXCEPT !.copyFailed = TRUE, !.failedStep = "copyMigrations"]
                   /\ UNCHANGED <<fs, idx>>
    /\ UNCHANGED <<diskVersion, ecVersion, catalog, backend, outside, opts, runs,
                   targetDatabase, migrationDirectoriesToMove, seedFilesToMove, cliState>>

\* copyFiles going on to the next file after a copy that failed
copyFiles_ErrorDropped ==
    /\ pc = "copyFiles"
    /\ IF idx > Len(seedFilesToMove)
       THEN /\ pc' = "WriteConfig"
            /\ UNCHANGED <<fs, idx, result, hist>>
       ELSE LET dir == seedFilesToMove[idx]
                src == Join(RootOf(SeedsDir), dir)
                dst == Join(DatabaseDirOf(SeedsDir, targetDatabase), dir)
            IN  \/ /\ Exists(fs, src)
                   /\ fs' = CopyAfero(fs, src, dst)
                   /\ hist' = [hist EXCEPT !.copied = @ \cup {src}]
                   /\ idx' = idx + 1
                   /\ UNCHANGED <<pc, result>>
                \/ /\ hist' = [hist EXCEPT !.copyFailed = TRUE, !.failedStep = "copyFiles"]
                   /\ idx' = idx + 1
                   /\ UNCHANGED <<fs, pc, result>>
    /\ UNCHANGED <<diskVersion, ecVersion, catalog, backend, outside, opts, runs,
                   targetDatabase, migrationDirectoriesToMove, seedFilesToMove, cliState>>

copyFiles ==
    /\ pc = "copyFiles"
    /\ IF idx > Len(seedFilesToMove)
       THEN /\ pc' = "WriteConfig"
            /\ UNCHANGED <<fs, idx, result, hist>>
       ELSE LET dir == seedFilesToMove[idx]
                src == Join(RootOf(SeedsDir), dir)
                dst == Join(DatabaseDirOf(SeedsDir, targetDatabase), dir)
            IN  \/ /\ Exists(fs, src)
                   /\ fs' = CopyAfero(fs, src, dst)
                   /\ hist' = [hist EXCEPT !.copied = @ \cup {src}]
                   /\ idx' = idx + 1
                   /\ UNCHANGED <<pc, result>>
                \/ /\ pc' = "done"
                   /\ result' = "err"
                   /\ hist' = [hist EXCEPT !.copyFailed = TRUE, !.failedStep = "copyFiles"]
                   /\ UNCHANGED <<fs, idx>>
    /\ UNCHANGED <<diskVersion, ecVersion, catalog, backend, outside, opts, runs,
                   targetDatabase, migrationDirectoriesToMove, seedFilesToMove, cliState>>

(***************************************************************************)
(* Lines 158-167: the new config file.                                     *)
(***************************************************************************)
\* the new config keeping the version V2 of the old one
NewConfigVersion_V2 == V2
NewConfigVersion == V3

WriteConfig ==
    /\ pc = "WriteConfig"
    /\ \/ /\ ReturnErr("WriteConfig")
          /\ UNCHANGED <<diskVersion, ecVersion, idx>>
       \/ /\ diskVersion' = NewConfigVersion
          /\ ecVersion' = NewConfigVersion
          /\ hist' = [hist EXCEPT !.configWrites = @ + 1]
          /\ pc' = "removeMigrations"
          /\ idx' = 1
          /\ UNCHANGED result
    /\ UNCHANGED <<fs, catalog, backend, outside, opts, runs,
                   targetDatabase, migrationDirectoriesToMove, seedFilesToMove, cliState>>

(***************************************************************************)
(* removeDirectories, lines 169-184 and 203-210.                           *)
(***************************************************************************)
\* the list of line 180 without tables.yaml
metadataFiles_FunctionsOnly == <<FunctionsYaml>>
metadataFiles == <<FunctionsYaml, TablesYaml>>
RemoveAll(f, path) == [q \in DOMAIN f \ Under(path) |-> f[q]]

removeDirectories(at, parentDirectory, dirNames, next) ==
    /\ pc = at
    /\ IF idx > Len(dirNames)
       THEN /\ pc' = next
            /\ idx' = 1
            /\ UNCHANGED <<fs, result, hist>>
       ELSE LET path == Join(parentDirectory, dirNames[idx]) IN
            \/ /\ fs' = RemoveAll(fs, path)
               /\ hist' = [hist EXCEPT !.deleted =
                              IF Exists(fs, path) THEN @ \cup {path} ELSE @]
               /\ idx' = idx + 1
               /\ UNCHANGED <<pc, result>>
            \/ /\ ReturnErr(at)
               /\ UNCHANGED <<fs, idx>>
    /\ UNCHANGED <<diskVersion, ecVersion, catalog, backend, outside, opts, runs,
                   targetDatabase, migrationDirectoriesToMove, seedFilesToMove, cliState>>

removeMigrations ==
    removeDirectories("removeMigrations", RootOf(MigrationsDir),
                      migrationDirectoriesToMove, "removeSeeds")
removeSeeds ==
    removeDirectories("removeSeeds", RootOf(SeedsDir), seedFilesToMove, "removeMetadata")
removeMetadata ==
    removeDirectories("removeMetadata", RootOf(MetadataDir), metadataFiles, "ExportMetadata")

(***************************************************************************)
(* Lines 186-200: the metadata of the server replaces the local files.     *)
(***************************************************************************)
WriteMetadataFiles(f) ==
    Put(f, <<MetadataDir, NoName, ExportedYaml>>, "server")

\* the export with its error not returned
ExportMetadata_ErrorDropped ==
    /\ pc = "ExportMetadata"
    /\ \/ hist' = [hist EXCEPT !.failedStep = "ExportMetadata"]
       \/ UNCHANGED hist
    /\ pc' = "WriteMetadata"
    /\ UNCHANGED <<result, fs, diskVersion, ecVersion, catalog, backend, outside, opts, locals, runs>>

ExportMetadata ==
    /\ pc = "ExportMetadata"
    /\ \/ ReturnErr("ExportMetadata")
       \/ /\ pc' = "WriteMetadata"
          /\ UNCHANGED <<result, hist>>
    /\ UNCHANGED <<fs, diskVersion, ecVersion, catalog, backend, outside, opts, locals, runs>>

WriteMetadata ==
    /\ pc = "WriteMetadata"
    /\ \/ /\ ReturnErr("WriteMetadata")
          /\ UNCHANGED fs
       \/ /\ fs' = WriteMetadataFiles(fs)
          /\ ReturnNil
          /\ UNCHANGED hist
    /\ UNCHANGED <<diskVersion, ecVersion, catalog, backend, outside, opts, locals, runs>>

Next ==
    \/ Invoke
    \/ PreChecks
    \/ Confirm
    \/ GetSources
    \/ GetSelectPrompt
    \/ CopyStatePrepareMigrations
    \/ CopyStateMigrations
    \/ CopyStatePrepareSettings
    \/ CopyStateSettings
    \/ CopyStateGet
    \/ CopyStateSet
    \/ getMigrationDirectoryNames
    \/ getSeedFiles
    \/ MkdirMigrations
    \/ MkdirSeeds
    \/ copyMigrations
    \/ copyFiles
    \/ WriteConfig
    \/ removeMigrations
    \/ removeSeeds
    \/ removeMetadata
    \/ ExportMetadata
    \/ WriteMetadata

Spec == Init /\ [][Next]_vars

(***************************************************************************)
(* Another client of the same backend.  CopyState takes no lock and the    *)
(* CatalogState has no version check (lines 315-322), so a write by        *)
(* another client can fall at any point of CopyState: before the copies,   *)
(* between them, between Get and Set.                                      *)
(***************************************************************************)
MaxOtherWrites == 1
CopyStatePcs == {"CopyState", "CopyMigrationState", "PrepareSettingsDriver",
                 "CopySettingsState", "Get", "Set"}
OtherSetting == [key |-> "other_client", value |-> "written"]

OtherWriter ==
    /\ pc \in CopyStatePcs
    /\ otherWrites < MaxOtherWrites
    /\ OtherSetting \notin catalog.settings
    /\ catalog' = [catalog EXCEPT !.settings = @ \cup {OtherSetting}]
    /\ otherWrites' = otherWrites + 1
    /\ UNCHANGED <<fs, diskVersion, ecVersion, backend, required, pc, opts, locals,
                   result, runs, hist>>

NextOtherWriter ==
    \/ Next
    \/ OtherWriter

SpecOtherWriter == Init /\ [][NextOtherWriter]_vars

(***************************************************************************)
(* CheckIfUpdateToConfigV3IsRequired, lines 326-358: called by the other   *)
(* commands of the CLI, between two runs of UpdateProjectV3.               *)
(***************************************************************************)
\* the function without the test of lines 349-353 on the name of the source
CheckRequired_AnySingleSource(version, hasMetadataV3, srcs) ==
    IF version <= V1 /\ hasMetadataV3 THEN "err"
    ELSE IF version < V3 /\ hasMetadataV3
         THEN IF Len(srcs) = 0 THEN "err"
              ELSE IF Len(srcs) # 1 THEN "err"
              ELSE "nil"
         ELSE "nil"

\* what the function returns once GetSources has returned srcs
CheckRequired(version, hasMetadataV3, srcs) ==
    IF version <= V1 /\ hasMetadataV3 THEN "err"
    ELSE IF version < V3 /\ hasMetadataV3
         THEN IF Len(srcs) = 0 THEN "err"
              ELSE IF Len(srcs) # 1 THEN "err"
              ELSE IF srcs[1] # DefaultDB THEN "err"
              ELSE "nil"
         ELSE "nil"

\* lines 332-336: the sources are listed only past the first test
ListsSources(version, hasMetadataV3) ==
    ~(version <= V1 /\ hasMetadataV3) /\ version < V3 /\ hasMetadataV3

CheckIfUpdateToConfigV3IsRequired ==
    /\ pc \in {"idle", "done"}
    /\ \/ /\ ListsSources(ecVersion, HasMetadataV3)
          /\ required' = "errSources"
       \/ required' = CheckRequired(ecVersion, HasMetadataV3, sources)
    /\ UNCHANGED <<fs, diskVersion, ecVersion, catalog, backend, otherWrites, pc, opts,
                   locals, result, runs, hist>>

NextCheck ==
    \/ Next
    \/ CheckIfUpdateToConfigV3IsRequired

SpecCheck == Init /\ [][NextCheck]_vars

(***************************************************************************)
(* Properties.                                                             *)
(***************************************************************************)
Running == pc # "idle"
CopyStateFailures == {"PrepareMigrationsStateStore", "CopyMigrationState",
                      "DuplicateStateConflict", "PrepareSettingsDriver",
                      "CopySettingsState", "Get", "Set"}
RemovePcs == {"removeMigrations", "removeSeeds", "removeMetadata"}
ReorganizePcs == {"getMigrationDirectoryNames", "getSeedFiles", "MkdirMigrations",
                  "MkdirSeeds", "copyMigrations", "copyFiles"} \cup RemovePcs
BeforeTargetPcs == {"idle", "prechecks", "confirm", "sources"}
\* the originals this run found in the directories: immediate children of a root
Originals == {p \in DOMAIN hist.startFs : p[2] = NoName}
VersionUntouched == diskVersion = hist.startVersion /\ ecVersion = hist.startVersion
NothingChanged == fs = hist.startFs /\ catalog = hist.startCatalog /\ VersionUntouched

\* a run on a V2 project with a connected source and without MoveStateOnly
OrdinaryRun ==
    Running /\ hist.startVersion = V2 /\ ~opts.MoveStateOnly /\ CopiesState(sources)

\* C1: an original migration or seed is deleted only after its own copy into the
\* directory of the target database has succeeded (stated for an ordinary run
\* in which no step has reported a failure).
C1_DeletedOnlyAfterCopied ==
    (OrdinaryRun /\ hist.failedStep = "none") =>
        \A p \in hist.deleted :
            p[1] \in {MigrationsDir, SeedsDir}
                => /\ p \in hist.copied
                   /\ Exists(fs, <<p[1], targetDatabase, p[3]>>)

\* C2: when a copy of a migration or of a seed has failed, UpdateProjectV3 has
\* returned an error and every original (migration, seed, legacy metadata file)
\* is still where it was, with what it held.
C2_CopyFailureDeletesNothing ==
    hist.copyFailed =>
        /\ pc = "done"
        /\ result = "err"
        /\ hist.deleted = {}
        /\ \A p \in Originals : Exists(fs, p) /\ fs[p] = hist.startFs[p]

C2_Witness ==
    /\ hist.copyFailed
    /\ pc = "done"
    /\ hist.failedStep = "copyFiles"
    /\ Cardinality(hist.copied) = 2
    /\ Originals # {}

\* C3: the version is V3 only once the copies and the deletion of the originals
\* and of the legacy metadata files are over, and a run in which the transplant
\* or a part of the reorganisation failed leaves the version as it was (stated
\* for an ordinary run).
C3_VersionOnlyAfterReorganization ==
    OrdinaryRun =>
        /\ ~VersionUntouched => pc \notin ReorganizePcs
        /\ (pc = "done" /\ hist.failedStep \in ReorganizePcs \cup CopyStateFailures)
              => VersionUntouched

\* C4: a run with MoveStateOnly never starts a step after CopyState: the
\* directories and the version are those of the start of the run.
C4_MoveStateOnlyStopsAfterCopyState ==
    (Running /\ opts.MoveStateOnly) =>
        /\ pc \notin ReorganizePcs \cup {"WriteConfig", "ExportMetadata", "WriteMetadata"}
        /\ fs = hist.startFs
        /\ VersionUntouched
        /\ (pc = "done" /\ hist.failedStep = "none" => result = "nil")

\* C5: the latch is set by a run only after the migration records and the settings
\* were copied; a failing step of CopyState returns an error with the latch as it
\* was, and the migration records copied before a later failure stay.
C5_LatchOnlyAfterBothCopies ==
    /\ (Running /\ catalog.IsStateCopyCompleted /\ ~hist.startCatalog.IsStateCopyCompleted)
          => /\ RenamedRows(hdbTable, targetDatabase) \subseteq catalog.migrations
             /\ TableSettings \subseteq catalog.settings
             /\ hist.failedStep \notin CopyStateFailures
    /\ (Running /\ hist.failedStep \in CopyStateFailures)
          => /\ pc = "done"
             /\ result = "err"
             /\ catalog.IsStateCopyCompleted = hist.startCatalog.IsStateCopyCompleted
    /\ (Running /\ hist.failedStep \in {"PrepareSettingsDriver", "CopySettingsState", "Get", "Set"})
          => RenamedRows(hdbTable, targetDatabase) \subseteq catalog.migrations

C5_Witness ==
    /\ pc = "done"
    /\ hist.failedStep = "CopySettingsState"
    /\ RenamedRows(hdbTable, targetDatabase) \subseteq catalog.migrations
    /\ hist.startCatalog.migrations = {}
    /\ ~catalog.IsStateCopyCompleted

\* C6: CopyState is entered only while IsStateCopyCompleted is false.
C6_CopyStateOnlyWhileLatchFalse ==
    pc = "CopyState" => ~catalog.IsStateCopyCompleted

\* C7: with no connected source the run goes no further than the listing of the
\* sources and changes nothing, and it ends with an error unless it was declined
\* (stated for a run without MoveStateOnly).
C7_NoSourcesFails ==
    (Running /\ ~opts.MoveStateOnly /\ Len(sources) = 0) =>
        /\ pc \in BeforeTargetPcs \cup {"done"}
        /\ NothingChanged
        /\ (pc = "done" /\ hist.failedStep = "none") => hist.confirmPrompts = 1

\* C8: the select prompt is never shown when --database-name is given nor when the
\* only source is "default", which is then the target; with two or more sources
\* and no flag it is shown exactly once before the target is known.
C8_TargetSelection ==
    Running =>
        /\ opts.TargetDatabase # NoName => hist.selectPrompts = 0
        /\ (opts.TargetDatabase = NoName /\ sources = <<DefaultDB>>)
              => /\ hist.selectPrompts = 0
                 /\ pc \notin BeforeTargetPcs \cup {"done"} => targetDatabase = DefaultDB
        /\ (opts.TargetDatabase = NoName /\ Len(sources) >= 2)
              => /\ hist.selectPrompts <= 1
                 /\ pc \notin BeforeTargetPcs \cup {"done", "GetSelectPrompt"}
                       => hist.selectPrompts = 1
                 /\ targetDatabase # NoName => hist.selectPrompts = 1

C8_Witness ==
    /\ pc = "done"
    /\ result = "nil"
    /\ opts.TargetDatabase = NoName
    /\ Len(sources) = 2
    /\ hist.selectPrompts = 1
    /\ targetDatabase = DefaultDB

\* C9: once a step has failed, UpdateProjectV3 has returned an error and no
\* later step is started (stated for an ordinary run).
C9_FailureAbortsImmediately ==
    (OrdinaryRun /\ hist.failedStep # "none") => pc = "done" /\ result = "err"

\* C10: with a version other than V2 (and no MoveStateOnly), without
\* HasMetadataV3, or with metadata that is inconsistent or whose consistency is
\* unknown, the run ends in the pre checks with an error and nothing written.
C10_PreChecksFailBeforeAnyWrite ==
    (/\ pc \notin {"idle", "prechecks"}
     /\ \/ WrongVersion(hist.startVersion, opts.MoveStateOnly)
        \/ ~HasMetadataV3
        \/ hist.consistency # "consistent")
    => /\ pc = "done"
       /\ result = "err"
       /\ hist.failedStep = "prechecks"
       /\ NothingChanged
       /\ hist.stateWrites = 0
       /\ hist.configWrites = 0

C10_Witness ==
    /\ pc = "done"
    /\ result = "err"
    /\ hist.failedStep = "prechecks"
    /\ HasMetadataV3
    /\ hist.startVersion = V2
    /\ hist.consistency = "inconsistent"

\* a run that went through every step and returned nil
CompletedRun == pc = "done" /\ result = "nil" /\ hist.configWrites = 1
\* the place of an original in the directory of the target database
TargetOf(p) == <<p[1], targetDatabase, p[3]>>
\* the originals that were listed to be moved
ListedMigrations ==
    {Join(RootOf(MigrationsDir), migrationDirectoriesToMove[i]) :
        i \in 1..Len(migrationDirectoriesToMove)}
ListedSeeds ==
    {Join(RootOf(SeedsDir), seedFilesToMove[i]) : i \in 1..Len(seedFilesToMove)}
MovedWithSameContent(p) ==
    /\ ~Exists(fs, p)
    /\ Exists(fs, TargetOf(p))
    /\ fs[TargetOf(p)] = hist.startFs[p]

\* C11: after a run that returned nil at its end, every listed migration and
\* every listed seed is gone from its original path and is in the directory of
\* the target database with what it held (stated for an ordinary run in which no
\* step has reported a failure).
C11_MovedToTargetWithSameContent ==
    (OrdinaryRun /\ CompletedRun /\ hist.failedStep = "none") =>
        \A p \in ListedMigrations \cup ListedSeeds : MovedWithSameContent(p)

\* no immediate child of the migrations directory had a timestamp name at the start
NoMatchedMigration ==
    \A p \in Originals : p[1] = MigrationsDir => ~isHasuraCLIGeneratedMigration(p[3])
TargetDirOf(root) == <<root, NoName, targetDatabase>>
AfterMkdirPcs == {"copyMigrations", "copyFiles", "WriteConfig", "ExportMetadata",
                  "WriteMetadata"} \cup RemovePcs
\* the path is as the run found it
SameAsAtStart(p) ==
    /\ Exists(fs, p) <=> Exists(hist.startFs, p)
    /\ Exists(fs, p) => fs[p] = hist.startFs[p]
\* the path is as the run found it, or it was made by the run
KeptOrMade(p) == Exists(hist.startFs, p) => SameAsAtStart(p)

C13_ConfigWriteFailsAfterReorganization ==
    (OrdinaryRun /\ hist.failedStep = "WriteConfig") =>
        /\ pc = "done"
        /\ result = "err"
        /\ VersionUntouched
        /\ \A p \in ListedMigrations \cup ListedSeeds : MovedWithSameContent(p)

\* C14: when the export of the metadata or the write of the metadata files fails,
\* the run has returned an error, the version on disk and in memory is V3, every
\* copy made by the run is in the directory of the target database, every path
\* deleted by the run is still absent and the latch set by the run is still set.
C14_MetadataFailureRevertsNothing ==
    (Running /\ hist.failedStep \in {"ExportMetadata", "WriteMetadata"}) =>
        /\ pc = "done"
        /\ result = "err"
        /\ diskVersion = V3
        /\ ecVersion = V3
        /\ hist.configWrites = 1
        /\ \A p \in hist.copied :
              Exists(fs, TargetOf(p)) /\ fs[TargetOf(p)] = hist.startFs[p]
        /\ \A p \in hist.deleted : ~Exists(fs, p)
        /\ \A i \in 1..Len(metadataFiles) :
              ~Exists(fs, Join(RootOf(MetadataDir), metadataFiles[i]))
        /\ CopiesState(sources) => catalog.IsStateCopyCompleted

C14_Witness ==
    /\ pc = "done"
    /\ hist.failedStep = "WriteMetadata"
    /\ hist.startVersion = V2
    /\ diskVersion = V3
    /\ Cardinality(hist.copied) = 3
    /\ Cardinality(hist.deleted) = 5
    /\ catalog.IsStateCopyCompleted

\* the timestamp-named migrations and the seed files the run found
MatchedOriginals ==
    {p \in Originals :
        \/ p[1] = MigrationsDir /\ isHasuraCLIGeneratedMigration(p[3])
        \/ p[1] = SeedsDir /\ ~IsDir(p[3])}

\* C15: a run with Force and no --database-name on a V2 project whose only
\* source is "default", in which no call fails, returns nil; every
\* timestamp-named migration and every seed file is then under default/ of its
\* root with what it held and not at its original path, the version is V3 and
\* functions.yaml and tables.yaml are absent.
C15_EndToEndDefault ==
    (/\ pc = "done"
     /\ hist.startVersion = V2
     /\ HasMetadataV3
     /\ sources = <<DefaultDB>>
     /\ opts = [Force |-> TRUE, MoveStateOnly |-> FALSE, TargetDatabase |-> NoName]
     /\ hist.failedStep = "none"
     /\ hist.skipped = {})
    => /\ result = "nil"
       /\ hist.confirmPrompts = 0
       /\ targetDatabase = DefaultDB
       /\ \A p \in MatchedOriginals :
             /\ ~Exists(fs, p)
             /\ Exists(fs, <<p[1], DefaultDB, p[3]>>)
             /\ fs[<<p[1], DefaultDB, p[3]>>] = hist.startFs[p]
       /\ diskVersion = V3
       /\ ecVersion = V3
       /\ ~Exists(fs, <<MetadataDir, NoName, FunctionsYaml>>)
       /\ ~Exists(fs, <<MetadataDir, NoName, TablesYaml>>)

C15_Witness ==
    /\ pc = "done"
    /\ result = "nil"
    /\ runs = 1
    /\ hist.startVersion = V2
    /\ sources = <<DefaultDB>>
    /\ opts = [Force |-> TRUE, MoveStateOnly |-> FALSE, TargetDatabase |-> NoName]
    /\ hist.failedStep = "none"
    /\ hist.skipped = {}
    /\ Exists(fs, <<MigrationsDir, DefaultDB, MigInitDir>>)
    /\ Exists(fs, <<MigrationsDir, DefaultDB, MigAddFile>>)
    /\ Exists(fs, <<SeedsDir, DefaultDB, SeedFile>>)
    /\ Exists(hist.startFs, <<MetadataDir, NoName, TablesYaml>>)

\* C16: no step lowers the version, on disk or in memory, and a step that changes
\* it makes it V3.
C16_VersionNeverDecreases ==
    [][/\ diskVersion' >= diskVersion
       /\ ecVersion' >= ecVersion
       /\ diskVersion' # diskVersion => diskVersion' = V3
       /\ ecVersion' # ecVersion => ecVersion' = V3
       /\ hist'.configWrites > hist.configWrites => diskVersion' = V3]_vars

C16_Witness ==
    /\ runs = 2
    /\ OrdinaryRun
    /\ CompletedRun
    /\ hist.startVersion = V2
    /\ diskVersion = V3
    /\ ecVersion = V3

\* C17: a CopyState called while the CatalogState holds migration records under
\* the name of the target database goes no further than CopyMigrationState, ends
\* with an error (the duplicate-state conflict unless the stores could not be
\* prepared or reached) and leaves the CatalogState as it was before the call.
C17_DuplicateStateConflict ==
    (/\ Running
     /\ hist.copyStateCalls >= 1
     /\ HoldsRecordsOf(hist.startCatalog, targetDatabase))
    => /\ catalog = hist.startCatalog
       /\ hist.stateWrites = 0
       /\ pc \in {"CopyMigrationState", "done"}
       /\ pc = "done" =>
             /\ result = "err"
             /\ hist.failedStep \in {"PrepareMigrationsStateStore", "CopyMigrationState",
                                     "DuplicateStateConflict"}

C17_Witness ==
    /\ pc = "done"
    /\ result = "err"
    /\ hist.failedStep = "DuplicateStateConflict"
    /\ HoldsRecordsOf(hist.startCatalog, targetDatabase)
    /\ catalog = hist.startCatalog
    /\ fs = hist.startFs

\* the step is a Set of CopyState that succeeded
SetSucceeded == pc = "Set" /\ hist'.stateWrites = hist.stateWrites + 1

\* C18: with another client writing, a Set that succeeds after a write made
\* since the Get leaves the CatalogState without that write; a Set that finds
\* the state as Get fetched it only adds the latch; and as long as no other
\* client has written, the state at Set is the one Get fetched.
C18_SetOverwritesInterleavedWrite ==
    /\ [](pc = "Set" /\ otherWrites = 0 => cliState = catalog)
    /\ [][SetSucceeded =>
            /\ (OtherSetting \in catalog.settings \ cliState.settings)
                  => OtherSetting \notin catalog'.settings
            /\ catalog = cliState => catalog' = SetLatch(catalog)
            /\ catalog'.migrations = cliState.migrations]_vars

C18_Witness ==
    /\ otherWrites = 1
    /\ OtherSetting \notin catalog.settings
    /\ catalog.IsStateCopyCompleted
    /\ hist.stateWrites = 3
    /\ pc = "getMigrationDirectoryNames"

\* the cases in which no upgrade of the project is asked for
NoUpgradeRequired ==
    \/ ~HasMetadataV3
    \/ ecVersion >= V3
    \/ ecVersion = V2 /\ sources = <<DefaultDB>>

\* C19: a call of CheckIfUpdateToConfigV3IsRequired changes nothing of the
\* project, the config or the backend; when the listing of the sources did not
\* fail it has returned nil exactly when the backend has no HasMetadataV3, or the
\* version is V3 or more, or the version is V2 and the sources are exactly
\* "default", and an error otherwise; the listing fails only where it is made.
C19_CheckIfUpdateRequired ==
    /\ [](/\ required = "nil" => NoUpgradeRequired
          /\ required = "err" => ~NoUpgradeRequired
          /\ required = "errSources" => (ecVersion = V2 /\ HasMetadataV3))
    /\ [][required' \notin {required, "none"} =>
            /\ required' \in {"nil", "err", "errSources"}
            /\ UNCHANGED <<fs, diskVersion, ecVersion, catalog, backend, pc, opts,
                           locals, result, runs, hist>>]_vars

C19_Witness ==
    /\ pc = "done"
    /\ runs = 1
    /\ required = "err"
    /\ ecVersion = V2
    /\ HasMetadataV3
    /\ sources = <<OtherDB>>

\* the legacy metadata files the run found
LegacyOriginals ==
    {p \in Originals : p[1] = MetadataDir /\ \E i \in 1..Len(metadataFiles) : p[3] = metadataFiles[i]}

\* no original is deleted before the config with V3 has been written
DeletionOnlyAfterConfigWrite ==
    (Running /\ hist.deleted # {}) =>
        /\ hist.configWrites = 1
        /\ diskVersion = V3
        /\ ecVersion = V3
\* a failed write of the config leaves every original where it was
ConfigWriteFailureKeepsOriginals ==
    (Running /\ hist.failedStep = "WriteConfig") =>
        /\ hist.deleted = {}
        /\ \A p \in Originals : Exists(fs, p) /\ fs[p] = hist.startFs[p]

\* C20: in every state of an ordinary run, an original (listed migration, listed
\* seed, legacy metadata file) has been deleted only if the config with V3 has
\* been written, and after a failed write of the config every original is where
\* it was and every listed migration and seed has its copy in the directory of
\* the target database.
C20_OriginalsKeptBesideCopies ==
    OrdinaryRun =>
        /\ DeletionOnlyAfterConfigWrite
        /\ ConfigWriteFailureKeepsOriginals
        /\ hist.failedStep = "WriteConfig" =>
              \A p \in ListedMigrations \cup ListedSeeds :
                  /\ Exists(fs, TargetOf(p))
                  /\ fs[TargetOf(p)] = hist.startFs[p]

\* C21: with UpdateProjectV3 as the only writer, the Set that ends CopyState
\* changes nothing of the CatalogState but IsStateCopyCompleted, and once
\* CopyState has returned nil the migration records and the settings the two
\* copies put there, and what the state held before, are still there.
C21_LatchWriteChangesOnlyLatch ==
    /\ [][SetSucceeded =>
            /\ catalog'.migrations = catalog.migrations
            /\ catalog'.settings = catalog.settings
            /\ catalog'.IsStateCopyCompleted]_vars
    /\ [](hist.stateWrites = 3 =>
            /\ catalog.IsStateCopyCompleted
            /\ catalog.migrations =
                  hist.startCatalog.migrations \cup RenamedRows(hdbTable, targetDatabase)
            /\ catalog.settings = hist.startCatalog.settings \cup TableSettings)

C21_Witness ==
    /\ pc = "done"
    /\ result = "nil"
    /\ opts.MoveStateOnly
    /\ hist.stateWrites = 3
    /\ ~hist.startCatalog.IsStateCopyCompleted
    /\ catalog.IsStateCopyCompleted
    /\ RenamedRows(hdbTable, targetDatabase) # {}
    /\ RenamedRows(hdbTable, targetDatabase) \subseteq catalog.migrations
    /\ TableSettings \subseteq catalog.settings

\* C22: a run without Force in which the prompt was answered "n" has returned nil
\* with the sources not listed, CopyState not called, and the directories, the
\* CatalogState and the version as they were; a run with Force never shows the
\* prompt.
C22_DeclinedRunChangesNothing ==
    Running =>
        /\ (~opts.Force /\ hist.response = "n") =>
              /\ pc = "done"
              /\ result = "nil"
              /\ hist.failedStep = "none"
              /\ hist.confirmPrompts = 1
              /\ hist.sourceListings = 0
              /\ hist.selectPrompts = 0
              /\ hist.copyStateCalls = 0
              /\ hist.stateWrites = 0
              /\ hist.configWrites = 0
              /\ hist.copied = {}
              /\ hist.deleted = {}
              /\ targetDatabase = NoName
              /\ NothingChanged
        /\ opts.Force => (hist.confirmPrompts = 0 /\ hist.response = "none")

C22_Witness ==
    /\ pc = "done"
    /\ result = "nil"
    /\ ~opts.Force
    /\ hist.response = "n"
    /\ hist.confirmPrompts = 1
    /\ hist.startVersion = V2
    /\ sources = <<DefaultDB>>
    /\ fs = hist.startFs

====
